---- MODULE Spec2Model ----
(***************************************************************************)
(* Model of the two extractive question-answering scripts                  *)
(*   src/Extractive LLMs/Basic_Haystack_Pipelines.py       ("basic")       *)
(*   src/Extractive LLMs/Extractive_QA_with_Chunking.py    ("chunk")       *)
(* Each script is a straight-line program: (split the text,) build the     *)
(* documents, run the indexing pipeline (embedder -> writer), build and    *)
(* run the QA pipeline (embedder -> retriever -> reader), print            *)
(* answers[0].data.  What the pretrained models compute (an embedding      *)
(* vector, a span and its probability) is a nondeterministic choice; what  *)
(* the components do with those values is modelled step by step.           *)
(*                                                                         *)
(* Texts are sequences of symbols.  A sample text of the basic script is   *)
(* a two-symbol string of its own; the text of the chunk script is the     *)
(* sequence of its separator-delimited paragraphs (pieces), each with a    *)
(* token count, and a chunk is the sequence of the pieces joined in it.    *)
(* Stripping of leading and trailing white space by the splitter is not    *)
(* represented: a piece stands for the non-blank text of a paragraph.      *)
(***************************************************************************)
EXTENDS Integers, Sequences, FiniteSets, TLC

VARIABLES script,      \* which of the two scripts runs
          pc,          \* the statement the script is at
          query,       \* the query string (an identifier)
          text,        \* chunk script: token count of every piece of `text`
          texts,       \* chunk script: the segments split_text returned
          documents,   \* the list of Document contents handed to indexing
          ran,         \* components of the running pipeline that have run
          embedded,    \* output socket embedder.documents of the indexing pipeline
          store,       \* InMemoryDocumentStore: stored documents, insertion order
          reader,      \* the ExtractiveReader component: model name and warm-up flag
          queryEmbedding, \* output socket embedder.embedding of the QA pipeline
          retrieved,   \* output socket retriever.documents
          answers,     \* result["reader"]["answers"]
          stdout,      \* the lines printed
          trace        \* the stages executed so far, in order

vars == <<script, pc, query, text, texts, documents, ran, embedded, store,
          reader, queryEmbedding, retrieved, answers, stdout, trace>>

(***************************************************************************)
(* Bounds of the model.                                                    *)
(***************************************************************************)
MaxVec == 1
MaxPieces == 4
MaxDocs == 4
ScoreScale == 10

Vec == 0..MaxVec
ProbLevels == {2, 5, 8}
PieceTokens == {0, 150, 300, 600}
TokenEstimates == {4, 5}

Scripts == {"basic", "chunk"}

Min(a, b) == IF a < b THEN a ELSE b

RECURSIVE Pow(_, _)
Pow(b, e) == IF e = 0 THEN 1 ELSE b * Pow(b, e - 1)

Range(s) == {s[i] : i \in 1..Len(s)}

(***************************************************************************)
(* The hard-coded data of the scripts.                                     *)
(***************************************************************************)
NumSampleTexts == 5

sample_texts == [i \in 1..NumSampleTexts |-> <<10 * i + 1, 10 * i + 2>>]

ParagraphChars == <<518, 543, 537, 524, 503, 497, 492, 500, 505>>

Query(s) == IF s = "basic"
            THEN "What was the graduation rate for School E in 2023?"
            ELSE "What is the projected global spending on AI systems in 2023?"

model(s) == "sentence-transformers/multi-qa-mpnet-base-dot-v1"

DocumentEmbedderModel(s) == model(s)

\* variant: the query embedder is built without model=model and falls back to
\* the embedder's default model
TextEmbedderDefaultModel(s) == "sentence-transformers/all-mpnet-base-v2"

TextEmbedderModel(s) == model(s)

ReaderModel(s) == IF s = "basic"
                  THEN "deepset/roberta-base-squad2-distilled"
                  ELSE "deepset/bert-base-uncased-squad2"

\* variant: the chunk script asks the retriever for another number of documents
RetrieverTopKDiffers(s) == IF s = "chunk" THEN 5 ELSE 3

\* variant: the retriever is asked for no document
RetrieverTopKZero(s) == 0

RetrieverTopK(s) == 3

ReaderTopK(s) == 1

HasChunking(s) == s = "chunk"

IndexingConnections(s) == {<<"embedder", "writer">>}

\* variant: retriever.documents is not connected to reader.documents
QAConnectionsMissing(s) == {<<"embedder", "retriever">>}

QAConnections(s) == {<<"embedder", "retriever">>, <<"retriever", "reader">>}

IndexingComponents == {"embedder", "writer"}

QAComponents == {"embedder", "retriever", "reader"}

Config(s) ==
    [chunking     |-> HasChunking(s),
     docModel     |-> DocumentEmbedderModel(s),
     queryModel   |-> TextEmbedderModel(s),
     readerModel  |-> ReaderModel(s),
     retrieverTopK |-> RetrieverTopK(s),
     readerTopK   |-> ReaderTopK(s),
     indexing     |-> IndexingConnections(s),
     qa           |-> QAConnections(s)]

(***************************************************************************)
(* Step 0 of the chunk script: CharacterTextSplitter.from_tiktoken_encoder *)
(* (encoding_name="cl100k_base", chunk_size=512).split_text(text).         *)
(* The text is split at the separator "\n\n", empty pieces are discarded,  *)
(* and the pieces are merged greedily into chunks; lengths are token       *)
(* counts.  The token count of a joined chunk is taken to be the sum of    *)
(* the counts of its parts.                                                *)
(***************************************************************************)
chunk_size == 512

chunk_overlap == 200

separator_len == 1

SepIf(cond) == IF cond THEN separator_len ELSE 0

\* sum of the token counts of the pieces `chunk` of text t
RECURSIVE PieceTokenSum(_, _)
PieceTokenSum(t, chunk) ==
    IF chunk = <<>> THEN 0 ELSE t[Head(chunk)] + PieceTokenSum(t, Tail(chunk))

\* len(tokens) of the chunk that joins the pieces `chunk` of text t
TokenCount(t, chunk) ==
    PieceTokenSum(t, chunk) + SepIf(Len(chunk) > 1) * (Len(chunk) - 1)

\* re.split on the separator, then [s for s in splits if s != ""]
RECURSIVE NonEmptyFrom(_, _)
NonEmptyFrom(t, i) ==
    IF i > Len(t) THEN <<>>
    ELSE IF t[i] # 0 THEN <<i>> \o NonEmptyFrom(t, i + 1) ELSE NonEmptyFrom(t, i + 1)

split_text_with_regex(t) == NonEmptyFrom(t, 1)

\* the while loop of _merge_splits that pops pieces off the front of current_doc
RECURSIVE PopOverlap(_, _, _, _)
PopOverlap(t, cur, total, len) ==
    IF cur # <<>>
       /\ (total > chunk_overlap
           \/ (total + len + SepIf(Len(cur) > 0) > chunk_size /\ total > 0))
    THEN PopOverlap(t, Tail(cur), total - (t[Head(cur)] + SepIf(Len(cur) > 1)), len)
    ELSE [current_doc |-> cur, total |-> total]

\* one iteration of `for d in splits` of _merge_splits
MergeStep(t, st, d) ==
    LET len == t[d]
        over == st.total + len + SepIf(Len(st.current_doc) > 0) > chunk_size
        flushed ==
            IF over /\ Len(st.current_doc) > 0
            THEN LET p == PopOverlap(t, st.current_doc, st.total, len)
                 IN [docs |-> Append(st.docs, st.current_doc),
                     current_doc |-> p.current_doc, total |-> p.total]
            ELSE st
        cur2 == Append(flushed.current_doc, d)
    IN [docs |-> flushed.docs, current_doc |-> cur2,
        total |-> flushed.total + len + SepIf(Len(cur2) > 1)]

RECURSIVE MergeLoop(_, _, _)
MergeLoop(t, st, splits) ==
    IF splits = <<>> THEN st
    ELSE MergeLoop(t, MergeStep(t, st, Head(splits)), Tail(splits))

\* variant: the pieces left in current_doc after the loop are not flushed
merge_splits_no_final_flush(t, splits) ==
    MergeLoop(t, [docs |-> <<>>, current_doc |-> <<>>, total |-> 0], splits).docs

merge_splits(t, splits) ==
    LET st == MergeLoop(t, [docs |-> <<>>, current_doc |-> <<>>, total |-> 0], splits)
    IN IF st.current_doc # <<>> THEN Append(st.docs, st.current_doc) ELSE st.docs

split_text(t) == merge_splits(t, split_text_with_regex(t))

(***************************************************************************)
(* Step 1: documents = [Document(content=val) for val in ...]              *)
(***************************************************************************)
NoEmbedding == [model |-> "None", vec |-> 0]

Document(content) == [content |-> content, embedding |-> NoEmbedding]

MapDocument(vals) == [i \in 1..Len(vals) |-> Document(vals[i])]

Stage(name) == trace' = Append(trace, name)

SplitText(c) ==
    /\ pc = "split"
    /\ texts' = split_text(text)
    /\ pc' = "documents"
    /\ Stage("split")
    /\ UNCHANGED <<script, query, text, documents, ran, embedded, store, reader,
                   queryEmbedding, retrieved, answers, stdout>>

MakeDocuments(c) ==
    /\ pc = "documents"
    /\ documents' = MapDocument(IF c.chunking THEN texts ELSE sample_texts)
    /\ pc' = "indexing"
    /\ Stage("documents")
    /\ UNCHANGED <<script, query, text, texts, ran, embedded, store, reader,
                   queryEmbedding, retrieved, answers, stdout>>

(***************************************************************************)
(* Pipeline.run: a component runs once every component connected to one   *)
(* of its input sockets has run; the run returns when all have run.        *)
(***************************************************************************)
Senders(conns, comp) == {e[1] : e \in {x \in conns : x[2] = comp}}

CanRun(conns, comp) == comp \notin ran /\ Senders(conns, comp) \subseteq ran

\* comp has run: the pipeline goes on, or returns and the script moves to `after`
Ran(comps, comp, after) ==
    IF ran \cup {comp} = comps
    THEN pc' = after /\ ran' = {}
    ELSE pc' = pc /\ ran' = ran \cup {comp}

(***************************************************************************)
(* Step 2: indexing_pipeline.run({"documents": documents})                 *)
(***************************************************************************)
\* the model maps equal texts to equal vectors
EmbeddingChoices(docs) ==
    {f \in [1..Len(docs) -> Vec] :
        \A i, j \in 1..Len(docs) : docs[i].content = docs[j].content => f[i] = f[j]}

IndexEmbedder(c) ==
    /\ pc = "indexing"
    /\ CanRun(c.indexing, "embedder")
    /\ \E f \in EmbeddingChoices(documents) :
          embedded' = [i \in 1..Len(documents) |->
                          [documents[i] EXCEPT !.embedding =
                              [model |-> c.docModel, vec |-> f[i]]]]
    /\ Ran(IndexingComponents, "embedder", "build_qa")
    /\ Stage("index.embedder")
    /\ UNCHANGED <<script, query, text, texts, documents, store, reader,
                   queryEmbedding, retrieved, answers, stdout>>

\* variant: every document is stored under the same key, each write replacing
\* the one before
write_documents_same_key(storage, docs) ==
    [storage |-> IF docs = <<>> THEN storage ELSE <<docs[Len(docs)]>>, error |-> FALSE]

\* InMemoryDocumentStore.write_documents under the writer's default policy
\* (DuplicatePolicy.NONE, which the store treats as FAIL); the id of a
\* document is the hash of its content
RECURSIVE write_documents(_, _)
write_documents(storage, docs) ==
    IF docs = <<>> THEN [storage |-> storage, error |-> FALSE]
    ELSE IF \E k \in 1..Len(storage) : storage[k].content = Head(docs).content
         THEN [storage |-> storage, error |-> TRUE]
         ELSE write_documents(Append(storage, Head(docs)), Tail(docs))

IndexWriter(c) ==
    /\ pc = "indexing"
    /\ CanRun(c.indexing, "writer")
    /\ LET w == write_documents(store, embedded)
       IN /\ store' = w.storage
          /\ IF w.error
             THEN pc' = "crashed" /\ ran' = ran
             ELSE Ran(IndexingComponents, "writer", "build_qa")
    /\ Stage("index.writer")
    /\ UNCHANGED <<script, query, text, texts, documents, embedded, reader,
                   queryEmbedding, retrieved, answers, stdout>>

(***************************************************************************)
(* Step 3: the retriever and the reader are created, the reader is warmed  *)
(* up, the QA pipeline is assembled.                                       *)
(***************************************************************************)
NoReader == [model |-> "None", warm |-> FALSE]

BuildQA(c) ==
    /\ pc = "build_qa"
    /\ reader' = [model |-> c.readerModel, warm |-> TRUE]
    /\ pc' = "qa"
    /\ Stage("build_qa")
    /\ UNCHANGED <<script, query, text, texts, documents, ran, embedded, store,
                   queryEmbedding, retrieved, answers, stdout>>

(***************************************************************************)
(* Step 4: extractive_qa_pipeline.run(...)                                 *)
(***************************************************************************)
QueryEmbedder(c) ==
    /\ pc = "qa"
    /\ CanRun(c.qa, "embedder")
    /\ \E v \in Vec : queryEmbedding' = [model |-> c.queryModel, vec |-> v]
    /\ Ran(QAComponents, "embedder", "response")
    /\ Stage("qa.embedder")
    /\ UNCHANGED <<script, query, text, texts, documents, embedded, store, reader,
                   retrieved, answers, stdout>>

\* dot product of two (one-dimensional) embeddings
Similarity(d, q) == d.vec * q.vec

\* sorted(xs, key=score, reverse=True): stable, equal scores keep their order
RECURSIVE InsertByScore(_, _)
InsertByScore(x, sorted) ==
    IF sorted = <<>> THEN <<x>>
    ELSE IF Head(sorted).score > x.score
         THEN <<Head(sorted)>> \o InsertByScore(x, Tail(sorted))
         ELSE <<x>> \o sorted

RECURSIVE SortByScore(_)
SortByScore(xs) ==
    IF xs = <<>> THEN <<>> ELSE InsertByScore(Head(xs), SortByScore(Tail(xs)))

FirstK(xs, k) == SubSeq(xs, 1, Min(k, Len(xs)))

\* variant: the scored documents are cut to top_k without being sorted
embedding_retrieval_unsorted(storage, q, top_k) ==
    LET withEmb == SelectSeq(storage, LAMBDA d : d.embedding # NoEmbedding)
        scored  == [i \in 1..Len(withEmb) |->
                       [content   |-> withEmb[i].content,
                        embedding |-> withEmb[i].embedding,
                        score     |-> Similarity(withEmb[i].embedding, q)]]
    IN FirstK(scored, top_k)

\* InMemoryDocumentStore.embedding_retrieval(query_embedding, top_k)
embedding_retrieval(storage, q, top_k) ==
    LET withEmb == SelectSeq(storage, LAMBDA d : d.embedding # NoEmbedding)
        scored  == [i \in 1..Len(withEmb) |->
                       [content   |-> withEmb[i].content,
                        embedding |-> withEmb[i].embedding,
                        score     |-> Similarity(withEmb[i].embedding, q)]]
    IN FirstK(SortByScore(scored), top_k)

Retriever(c) ==
    /\ pc = "qa"
    /\ CanRun(c.qa, "retriever")
    /\ retrieved' = embedding_retrieval(store, queryEmbedding, c.retrieverTopK)
    /\ Ran(QAComponents, "retriever", "response")
    /\ Stage("qa.retriever")
    /\ UNCHANGED <<script, query, text, texts, documents, embedded, store, reader,
                   queryEmbedding, answers, stdout>>

(***************************************************************************)
(* ExtractiveReader.run(query, documents, top_k), constructed with its     *)
(* defaults (no_answer=True, score_threshold=None).  The model proposes    *)
(* one candidate span per document, with a probability in units of         *)
(* 1/ScoreScale; as no two candidates share a document,                    *)
(* deduplicate_by_overlap removes nothing.  Scores of the answers are in   *)
(* units of 1/ScoreScale^top_k, so that the score of the no-answer entry,  *)
(* the product of (1 - score) over the answers kept, is exact.             *)
(***************************************************************************)
Candidates(doc) ==
    {[start |-> a, end |-> b, prob |-> p, document |-> doc.content] :
        a \in 0..(Len(doc.content) - 1), b \in 1..Len(doc.content), p \in ProbLevels}

\* one candidate for each document, in the order of the documents
RECURSIVE CandidateChoices(_)
CandidateChoices(docs) ==
    IF docs = <<>> THEN {<<>>}
    ELSE {<<x>> \o rest : x \in {y \in Candidates(Head(docs)) : y.start < y.end},
                          rest \in CandidateChoices(Tail(docs))}

\* variant: the span is decoded with a special token of the model's input in it
ExtractedAnswerWithSpecialToken(cand, top_k) ==
    [data     |-> <<0>> \o SubSeq(cand.document, cand.start + 1, cand.end),
     document |-> cand.document,
     isNone   |-> FALSE,
     prob     |-> cand.prob,
     score    |-> cand.prob * Pow(ScoreScale, top_k - 1)]

\* ExtractedAnswer(data=doc.content[start:end], document=doc, score=probability)
ExtractedAnswer(cand, top_k) ==
    [data     |-> SubSeq(cand.document, cand.start + 1, cand.end),
     document |-> cand.document,
     isNone   |-> FALSE,
     prob     |-> cand.prob,
     score    |-> cand.prob * Pow(ScoreScale, top_k - 1)]

\* math.prod(1 - answer.score for answer in current_answers)
RECURSIVE NoAnswerScore(_, _)
NoAnswerScore(current, top_k) ==
    IF current = <<>> THEN Pow(ScoreScale, top_k)
    ELSE (ScoreScale - Head(current).prob) * NoAnswerScore(Tail(current), top_k - 1)

\* ExtractedAnswer(data=None, document=None, score=no_answer_score)
NoAnswer(current, top_k) ==
    [data |-> <<>>, document |-> <<>>, isNone |-> TRUE, prob |-> 0,
     score |-> NoAnswerScore(current, top_k)]

\* variant: the no-answer entry is appended and the list is not sorted again
nest_answers_unsorted(cands, top_k) ==
    LET all     == [i \in 1..Len(cands) |-> ExtractedAnswer(cands[i], top_k)]
        current == FirstK(SortByScore(all), top_k)
    IN Append(current, NoAnswer(current, top_k))

\* _nest_answers for the single query: sort, keep top_k, append the no-answer
\* entry, sort again
nest_answers(cands, top_k) ==
    LET all     == [i \in 1..Len(cands) |-> ExtractedAnswer(cands[i], top_k)]
        current == FirstK(SortByScore(all), top_k)
    IN SortByScore(Append(current, NoAnswer(current, top_k)))

ReaderRun(docs, cands, top_k) ==
    IF docs = <<>> THEN <<>> ELSE nest_answers(cands, top_k)

Reader(c) ==
    /\ pc = "qa"
    /\ CanRun(c.qa, "reader")
    /\ \E cands \in CandidateChoices(retrieved) :
          answers' = ReaderRun(retrieved, cands, c.readerTopK)
    /\ Ran(QAComponents, "reader", "response")
    /\ Stage("qa.reader")
    /\ UNCHANGED <<script, query, text, texts, documents, embedded, store, reader,
                   queryEmbedding, retrieved, stdout>>

(***************************************************************************)
(* Step 5: response = result["reader"]["answers"][0].data; print(...)      *)
(***************************************************************************)
Response(c) ==
    /\ pc = "response"
    /\ Stage("response")
    /\ IF answers = <<>>
       THEN pc' = "crashed" /\ stdout' = stdout
       ELSE /\ stdout' = Append(stdout, [isNone |-> answers[1].isNone,
                                         data   |-> answers[1].data])
            /\ pc' = "done"
    /\ UNCHANGED <<script, query, text, texts, documents, ran, embedded, store,
                   reader, queryEmbedding, retrieved, answers>>

(***************************************************************************)
(* The scripts as written: their own data, from the first statement.       *)
(***************************************************************************)
Blank ==
    /\ texts = <<>> /\ documents = <<>> /\ ran = {} /\ embedded = <<>>
    /\ store = <<>> /\ reader = NoReader /\ queryEmbedding = NoEmbedding
    /\ retrieved = <<>> /\ answers = <<>> /\ stdout = <<>> /\ trace = <<>>

\* token counts of the paragraphs of `text`, at n characters a token
ParagraphTokens(n) == [i \in 1..Len(ParagraphChars) |-> ParagraphChars[i] \div n]

Init ==
    /\ script \in Scripts
    /\ query = Query(script)
    /\ IF HasChunking(script)
       THEN pc = "split" /\ \E n \in TokenEstimates : text = ParagraphTokens(n)
       ELSE pc = "documents" /\ text = <<>>
    /\ Blank

Next ==
    \/ SplitText(Config(script))
    \/ MakeDocuments(Config(script))
    \/ IndexEmbedder(Config(script))
    \/ IndexWriter(Config(script))
    \/ BuildQA(Config(script))
    \/ QueryEmbedder(Config(script))
    \/ Retriever(Config(script))
    \/ Reader(Config(script))
    \/ Response(Config(script))

Spec == Init /\ [][Next]_vars

(***************************************************************************)
(* split_text and the documents built from it, for every text of at most   *)
(* MaxPieces pieces with token counts in PieceTokens (0: an empty piece,   *)
(* 600: a paragraph longer than chunk_size).                               *)
(***************************************************************************)
RECURSIVE SeqsUpTo(_, _)
SeqsUpTo(S, n) ==
    IF n = 0 THEN {<<>>}
    ELSE LET shorter == SeqsUpTo(S, n - 1)
         IN shorter \cup {Append(q, x) : q \in {r \in shorter : Len(r) = n - 1}, x \in S}

SplitInit ==
    /\ script = "chunk"
    /\ query = Query(script)
    /\ pc = "split"
    /\ text \in SeqsUpTo(PieceTokens, MaxPieces)
    /\ Blank

SplitNext ==
    \/ SplitText(Config(script))
    \/ MakeDocuments(Config(script))

SplitSpec == SplitInit /\ [][SplitNext]_vars

(***************************************************************************)
(* The pipelines of either script on the same list of documents and the    *)
(* same query: up to MaxDocs documents of one symbol each, the last one    *)
(* possibly a copy of the first (which the writer refuses: the script      *)
(* aborts); with no document at all the reader returns no answer and the   *)
(* script aborts at answers[0].                                            *)
(***************************************************************************)
DocumentLists ==
    LET fresh(n) == [i \in 1..n |-> <<100 + i>>]
    IN {fresh(n) : n \in 0..MaxDocs}
       \cup {[fresh(n) EXCEPT ![n] = fresh(n)[1]] : n \in 2..MaxDocs}

PipelineInit ==
    /\ script \in Scripts
    /\ query \in {Query(s) : s \in Scripts}
    /\ pc = "indexing"
    /\ text = <<>> /\ texts = <<>>
    /\ \E l \in DocumentLists : documents = MapDocument(l)
    /\ ran = {} /\ embedded = <<>> /\ store = <<>> /\ reader = NoReader
    /\ queryEmbedding = NoEmbedding /\ retrieved = <<>> /\ answers = <<>>
    /\ stdout = <<>> /\ trace = <<>>

PipelineNext ==
    \/ IndexEmbedder(Config(script))
    \/ IndexWriter(Config(script))
    \/ BuildQA(Config(script))
    \/ QueryEmbedder(Config(script))
    \/ Retriever(Config(script))
    \/ Reader(Config(script))
    \/ Response(Config(script))

PipelineSpec == PipelineInit /\ [][PipelineNext]_vars

(***************************************************************************)
(* Properties.                                                             *)
(***************************************************************************)
HasRun(stage) == stage \in Range(trace)

\* d is a contiguous part of content
IsSubstring(d, content) ==
    \E a \in 0..Len(content) : \E b \in a..Len(content) : SubSeq(content, a + 1, b) = d

\* C3: every segment split_text returns has at most chunk_size (512) tokens,
\* whatever the text, also when one paragraph alone is longer than that.
C3_EverySegmentWithinChunkSize ==
    HasRun("split") => \A k \in 1..Len(texts) : TokenCount(text, texts[k]) <= chunk_size

\* C4: the segments preserve read order: each is a contiguous run of the
\* (non-empty) pieces of the text, a later segment starts no earlier than an
\* earlier one, every piece is in some segment and nothing else is, and the
\* documents list has the length and the order of the segment list.
RunStart(seg, splits) == CHOOSE a \in 1..Len(splits) : splits[a] = seg[1]

IsRunOf(seg, splits) ==
    /\ seg # <<>>
    /\ \E a \in 1..Len(splits) :
          a + Len(seg) - 1 <= Len(splits) /\ seg = SubSeq(splits, a, a + Len(seg) - 1)

C4_SegmentsPreserveReadOrder ==
    LET splits == split_text_with_regex(text)
    IN /\ HasRun("split") =>
             /\ \A k \in 1..Len(texts) : IsRunOf(texts[k], splits)
             /\ \A i, j \in 1..Len(texts) :
                   i < j => RunStart(texts[i], splits) <= RunStart(texts[j], splits)
             /\ \A a \in 1..Len(splits) : \E k \in 1..Len(texts) : splits[a] \in Range(texts[k])
             /\ \A k \in 1..Len(texts) : Range(texts[k]) \subseteq {i \in 1..Len(text) : text[i] # 0}
       /\ HasRun("documents") =>
             /\ Len(documents) = Len(texts)
             /\ \A k \in 1..Len(texts) : documents[k].content = texts[k]

\* a text of several pieces was split into more than one segment, two of them
\* overlapping, and the documents were built
C4_Witness ==
    /\ HasRun("documents")
    /\ Len(texts) >= 2
    /\ \E k \in 1..(Len(texts) - 1) : Range(texts[k]) \cap Range(texts[k + 1]) # {}

InStore(d) == \E k \in 1..Len(store) :
                 store[k].content = d.content /\ store[k].embedding = d.embedding

C2_RetrieverReturnsTopK ==
    HasRun("qa.retriever") =>
        LET sim(d) == Similarity(d.embedding, queryEmbedding)
            N == Cardinality({k \in 1..Len(store) : store[k].embedding # NoEmbedding})
        IN /\ Len(retrieved) = Min(RetrieverTopK(script), N)
           /\ \A i, j \in 1..Len(retrieved) :
                 i # j => retrieved[i].content # retrieved[j].content
           /\ \A i \in 1..Len(retrieved) : InStore(retrieved[i])
           /\ \A i, j \in 1..Len(retrieved) : i < j => sim(retrieved[i]) >= sim(retrieved[j])
           /\ \A k \in 1..Len(store) :
                 (\A i \in 1..Len(retrieved) : retrieved[i].content # store[k].content)
                 => \A i \in 1..Len(retrieved) : sim(store[k]) <= sim(retrieved[i])

\* more documents stored than asked for, of differing similarity, the most
\* similar one not stored first
C2_Witness ==
    /\ HasRun("qa.retriever")
    /\ Len(store) > RetrieverTopK(script)
    /\ Len(retrieved) = RetrieverTopK(script)
    /\ retrieved[1].score > retrieved[Len(retrieved)].score
    /\ retrieved[1].content # store[1].content

\* C5: wherever a similarity is computed, the stored documents and the query
\* were embedded by the same model.
C5_SameEmbeddingModel ==
    HasRun("qa.retriever") =>
        /\ queryEmbedding # NoEmbedding
        /\ \A k \in 1..Len(store) : store[k].embedding.model = queryEmbedding.model
        /\ \A k \in 1..Len(retrieved) : retrieved[k].embedding.model = queryEmbedding.model

\* the retriever has compared the query with a non-empty store
C5_Witness ==
    /\ HasRun("qa.retriever")
    /\ Len(store) >= 2
    /\ retrieved # <<>>

\* C6 as claimed: the reader, run with top_k = K on retrieved passages, returns
\* at most K answers in non-increasing order of score, no span longer than its
\* passage.
Ordered(as) == \A i, j \in 1..Len(as) : i < j => as[i].score >= as[j].score

SpansFit(as) == \A i \in 1..Len(as) : ~as[i].isNone => Len(as[i].data) <= Len(as[i].document)

C6_AtMostKAnswers ==
    (HasRun("qa.reader") /\ retrieved # <<>>) =>
        /\ Len(answers) <= ReaderTopK(script)
        /\ Ordered(answers)
        /\ SpansFit(answers)

\* C6, amended: the reader returns at most K spans and, after them in the
\* ranking by score, exactly one no-answer entry (data None): between 1 and
\* K + 1 entries in non-increasing order of score, so that answers[0] is the
\* highest-scoring entry, the no-answer entry included; no span is longer than
\* the passage it was taken from.
C6_AtMostKSpansAndNoAnswer ==
    (HasRun("qa.reader") /\ retrieved # <<>>) =>
        /\ Cardinality({i \in 1..Len(answers) : ~answers[i].isNone}) <= ReaderTopK(script)
        /\ Cardinality({i \in 1..Len(answers) : answers[i].isNone}) = 1
        /\ Len(answers) <= ReaderTopK(script) + 1
        /\ Ordered(answers)
        /\ SpansFit(answers)
        /\ \A i \in 1..Len(answers) :
              ~answers[i].isNone =>
                  \E k \in 1..Len(retrieved) : answers[i].document = retrieved[k].content

\* the reader ran on several passages and ranked a span above the no-answer entry
C6_Witness ==
    /\ HasRun("qa.reader")
    /\ Len(retrieved) >= 2
    /\ Len(answers) = 2
    /\ ~answers[1].isNone
    /\ answers[1].score > answers[2].score

\* C7: on the same list of documents, the same query and the same reader, every
\* stage either script executes is a stage the other script executes from the
\* same state, with the same result: the same store, the same retrieved
\* documents, the same answers and the same printed response.
Other(s) == IF s = "basic" THEN "chunk" ELSE "basic"

Stages(c) ==
    \/ IndexEmbedder(c)
    \/ IndexWriter(c)
    \/ BuildQA(c)
    \/ QueryEmbedder(c)
    \/ Retriever(c)
    \/ Reader(c)
    \/ Response(c)

C7_ScriptsRunTheSameStages ==
    [][Stages([Config(Other(script)) EXCEPT !.readerModel = ReaderModel(script)])]_vars

\* a run on more documents than the retriever returns has printed its response
C7_Witness ==
    /\ pc = "done"
    /\ Len(store) > Len(retrieved)
    /\ Len(retrieved) >= 2
    /\ Len(stdout) = 1

\* C8: the stages run in one fixed order: (split,) documents, document
\* embedder, writer, query embedder, retriever, reader, print; the query is
\* embedded and the retriever searches only once every document is written,
\* and the reader's spans come from the documents the retriever returned.
C8_Order(s) ==
    (IF HasChunking(s) THEN <<"split">> ELSE <<>>)
    \o <<"documents", "index.embedder", "index.writer", "build_qa",
         "qa.embedder", "qa.retriever", "qa.reader", "response">>

C8_StagesRunInOrder ==
    /\ Len(trace) <= Len(C8_Order(script))
    /\ trace = SubSeq(C8_Order(script), 1, Len(trace))
    /\ (HasRun("qa.embedder") \/ HasRun("qa.retriever")) =>
          /\ Len(store) = Len(documents)
          /\ \A k \in 1..Len(store) : store[k].content = documents[k].content
    /\ HasRun("qa.reader") =>
          /\ HasRun("qa.retriever")
          /\ \A i \in 1..Len(answers) :
                ~answers[i].isNone =>
                    \E k \in 1..Len(retrieved) : answers[i].document = retrieved[k].content

\* the chunk script has run all its stages
C8_Witness ==
    /\ HasChunking(script)
    /\ pc = "done"
    /\ trace = C8_Order(script)

\* C9: once indexing_pipeline.run has returned, the store holds one document
\* for each input text (5 in the basic script, one for each chunk in the chunk
\* script), in order, with the text as content and an embedding attached, and
\* no later step changes the store.
StoreHoldsTheDocuments ==
    /\ Len(store) = Len(documents)
    /\ Len(store) = IF HasChunking(script) THEN Len(texts) ELSE NumSampleTexts
    /\ \A k \in 1..Len(store) :
          /\ store[k].content = documents[k].content
          /\ store[k].content = IF HasChunking(script) THEN texts[k] ELSE sample_texts[k]
          /\ store[k].embedding # NoEmbedding

C9_StoreUnchangedAfterIndexing ==
    [][/\ HasRun("index.writer")' => StoreHoldsTheDocuments'
       /\ HasRun("index.writer") => store' = store]_vars

\* the QA pipeline has run on a store of several chunks
C9_Witness ==
    /\ HasChunking(script)
    /\ pc = "done"
    /\ Len(store) >= 2
    /\ StoreHoldsTheDocuments

\* C10: answers[0] is in bounds in every run: the script never aborts, the
\* reader is handed at least one document and returns at least one answer, and
\* the script goes on until it has printed exactly one response line (at
\* "split" the only guard of the step is the position itself).
C10_ResponseIndexInBounds ==
    /\ pc # "crashed"
    /\ pc = "response" =>
          /\ store # <<>>
          /\ retrieved # <<>>
          /\ Len(answers) >= 1
    /\ IF pc = "done" THEN Len(stdout) = 1
       ELSE stdout = <<>> /\ (pc = "split" \/ ENABLED Next)

\* the response line was printed from a list of answers
C10_Witness ==
    /\ pc = "done"
    /\ Len(answers) >= 1
    /\ Len(stdout) = 1
    /\ stdout[1].data = answers[1].data

====
